---- MODULE Spec2Model ----
(***************************************************************************)
(* chess64: browser chess with a negamax/alpha-beta AI                     *)
(* (src/script_Version3.js).  The rules engine (chess.js) is an external   *)
(* library; it is modelled here by a small chess played on one rank of the *)
(* board (king, knight, rook per side), which keeps every notion the       *)
(* program consumes: legal moves in SAN, captures, check, checkmate,       *)
(* stalemate, insufficient material, threefold repetition, move and undo.  *)
(***************************************************************************)
EXTENDS Integers, Sequences, FiniteSets, TLC

VARIABLES
    game,        \* the Chess object (line 5): position and move history
    playAI,      \* the Play-vs-AI checkbox
    aiSide,      \* the AI side select: "white" or "black"
    aiStrength,  \* the strength slider
    timers,      \* the pending setTimeout callbacks, oldest first
    dragging,    \* the square of the piece being dragged, 0 when none
    last,        \* what the last step did, when it was a run of makeAIMove
    input,       \* the arguments of the function call under check
    output       \* what that call returned

vars == <<game, playAI, aiSide, aiStrength, timers, dragging, last, input, output>>

----------------------------------------------------------------------------
(* Bounds of the model *)

\* plies a game may hold in its history before the model stops adding moves
MaxPly == 5
\* pending setTimeout callbacks
MaxTimers == 2

----------------------------------------------------------------------------
(* Rules engine: the Chess object of chess.js, on one rank *)

Files == 1..8

Abs(x) == IF x < 0 THEN -x ELSE x

\* a piece is a FEN letter: upper case White, lower case Black; "." is empty
WhitePieces == {"K", "N", "R", "P", "B", "Q"}
BlackPieces == {"k", "n", "r", "p", "b", "q"}

pieceColor(c) == IF c \in WhitePieces THEN "w" ELSE "b"

pieceType(c) ==
    CASE c \in {"K", "k"} -> "k"
      [] c \in {"N", "n"} -> "n"
      [] c \in {"R", "r"} -> "r"
      [] c \in {"P", "p"} -> "p"
      [] c \in {"B", "b"} -> "b"
      [] c \in {"Q", "q"} -> "q"

switchColor(color) == IF color = "w" THEN "b" ELSE "w"

StartBoard == <<"K", "N", "R", ".", ".", "r", "n", "k">>

\* new Chess(): the starting position, no history
NewChess == [board |-> StartBoard, turn |-> "w", half |-> 0, hist |-> <<>>]

Own(b, s, color) == b[s] # "." /\ pieceColor(b[s]) = color

\* every square strictly between s and t is empty
ClearBetween(b, s, t) ==
    \A x \in Files : ((s < x /\ x < t) \/ (t < x /\ x < s)) => b[x] = "."

\* the piece on s reaches t (geometry only)
Reaches(b, s, t) ==
    CASE pieceType(b[s]) = "k" -> Abs(s - t) = 1
      [] pieceType(b[s]) = "n" -> Abs(s - t) = 2
      [] pieceType(b[s]) = "r" -> s # t /\ ClearBetween(b, s, t)
      [] OTHER -> FALSE

Attacked(b, t, byColor) ==
    \E s \in Files : Own(b, s, byColor) /\ Reaches(b, s, t)

KingSquare(b, color) ==
    CHOOSE s \in Files : b[s] # "." /\ pieceType(b[s]) = "k" /\ pieceColor(b[s]) = color

InCheckOn(b, color) == Attacked(b, KingSquare(b, color), switchColor(color))

BoardAfter(b, s, t) == [b EXCEPT ![t] = b[s], ![s] = "."]

LegalStep(b, color, s, t) ==
    /\ Own(b, s, color)
    /\ ~Own(b, t, color)
    /\ Reaches(b, s, t)
    /\ ~InCheckOn(BoardAfter(b, s, t), color)

FileName == <<"a", "b", "c", "d", "e", "f", "g", "h">>

\* SAN of the move s -> t: piece letter, "x" when it captures, target file
San(b, s, t) ==
    IF b[t] # "." THEN <<pieceType(b[s]), "x", FileName[t]>>
    ELSE <<pieceType(b[s]), FileName[t]>>

\* the legal moves of color as (from, to) pairs
LegalPairs(b, color) ==
    {p \in Files \X Files : LegalStep(b, color, p[1], p[2])}

\* the moves of every piece of color, by square then by target, as SAN
MovesFrom(b, color) ==
    LET S == LegalPairs(b, color)
        nth(i) == CHOOSE p \in S :
                     Cardinality({q \in S : \/ q[1] < p[1]
                                            \/ (q[1] = p[1] /\ q[2] < p[2])}) = i - 1
    IN [i \in 1..Cardinality(S) |-> San(b, nth(i)[1], nth(i)[2])] \o <<>>

\* chess.moves(): the legal moves as SAN, in a fixed generation order
moves(chess) == MovesFrom(chess.board, chess.turn)

in_check(chess) == InCheckOn(chess.board, chess.turn)

HasMove(chess) ==
    \E s, t \in Files : LegalStep(chess.board, chess.turn, s, t)

in_checkmate(chess) == in_check(chess) /\ ~HasMove(chess)

in_stalemate(chess) == ~in_check(chess) /\ ~HasMove(chess)

\* king against king, or one minor piece
insufficient_material(chess) ==
    LET on == {s \in Files : chess.board[s] # "."}
    IN \/ Cardinality(on) = 2
       \/ /\ Cardinality(on) = 3
          /\ \E s \in on : pieceType(chess.board[s]) \in {"n", "b"}

PosKey(p) == <<p.board, p.turn>>

\* some position of the game (the current one included) has occurred three times
in_threefold_repetition(chess) ==
    LET keys == [i \in 1..(Len(chess.hist) + 1) |->
                    IF i <= Len(chess.hist) THEN PosKey(chess.hist[i])
                    ELSE PosKey(chess)]
    IN \E i \in DOMAIN keys :
          Cardinality({j \in DOMAIN keys : keys[j] = keys[i]}) >= 3

in_draw(chess) ==
    \/ chess.half >= 100
    \/ in_stalemate(chess)
    \/ insufficient_material(chess)
    \/ in_threefold_repetition(chess)

\* checkmate or stalemate (no legal move), or a draw
game_over(chess) ==
    \/ chess.half >= 100
    \/ ~HasMove(chess)
    \/ insufficient_material(chess)
    \/ in_threefold_repetition(chess)

\* the square of the side to move's piece a SAN names
SanFrom(chess, san) ==
    CHOOSE s \in Files :
        /\ Own(chess.board, s, chess.turn)
        /\ pieceType(chess.board[s]) = san[1]

Snapshot(chess) == [board |-> chess.board, turn |-> chess.turn, half |-> chess.half]

\* the position after the legal move s -> t, the old one pushed on the history
Apply(chess, s, t) ==
    [board |-> BoardAfter(chess.board, s, t),
     turn  |-> switchColor(chess.turn),
     half  |-> IF chess.board[t] # "." THEN 0 ELSE chess.half + 1,
     hist  |-> Append(chess.hist, Snapshot(chess))]

\* the square a SAN ends on
SanTo(san) == CHOOSE t \in Files : FileName[t] = san[Len(san)]

\* chess.move(san), san one of chess.moves()
move(chess, san) == Apply(chess, SanFrom(chess, san), SanTo(san))

\* chess.undo(): takes back the last move; nothing to take back leaves the game as is
undo(chess) ==
    IF chess.hist = <<>> THEN chess
    ELSE LET p == chess.hist[Len(chess.hist)]
         IN [board |-> p.board, turn |-> p.turn, half |-> p.half,
             hist |-> SubSeq(chess.hist, 1, Len(chess.hist) - 1)]

\* chess.reset()
reset(chess) == NewChess

----------------------------------------------------------------------------
(* What evaluateBoard reads of a Chess object *)

\* chess.board(): 8 rows of 8 squares, rank 8 first; the game occupies rank 1
board8(chess) ==
    [r \in 0..7 |-> [f \in 0..7 |-> IF r = 7 THEN chess.board[f + 1] ELSE "."]]

\* the answers of the Chess object to the calls evaluateBoard makes
View(chess) ==
    LET stuck == ~HasMove(chess)
        check == in_check(chess)
        threefold == in_threefold_repetition(chess)
    IN [in_checkmate |-> check /\ stuck,
        in_draw |-> \/ chess.half >= 100
                    \/ (~check /\ stuck)
                    \/ insufficient_material(chess)
                    \/ threefold,
        in_stalemate |-> ~check /\ stuck,
        in_threefold_repetition |-> threefold,
        turn |-> chess.turn,
        board |-> board8(chess)]

----------------------------------------------------------------------------
(* The AI: src/script_Version3.js, lines 113-258 *)

Infinity == 10000000

Null == <<>>

pieceValue ==
    [t \in {"p", "n", "b", "r", "q", "k"} |->
        CASE t = "p" -> 100
          [] t = "n" -> 320
          [] t = "b" -> 330
          [] t = "r" -> 500
          [] t = "q" -> 900
          [] t = "k" -> 20000]

\* what one square adds to value: the body of evaluateBoard's inner loop
squareValue(piece) ==
    IF piece # "."
    THEN (IF pieceColor(piece) = "w" THEN pieceValue[pieceType(piece)]
          ELSE -pieceValue[pieceType(piece)])
    ELSE 0

\* the inner loop (f = 0..7) of evaluateBoard on one row
rowValue(row) ==
    squareValue(row[0]) + squareValue(row[1]) + squareValue(row[2]) + squareValue(row[3])
    + squareValue(row[4]) + squareValue(row[5]) + squareValue(row[6]) + squareValue(row[7])

\* the outer loop (r = 0..7) of evaluateBoard
boardValue(board) ==
    rowValue(board[0]) + rowValue(board[1]) + rowValue(board[2]) + rowValue(board[3])
    + rowValue(board[4]) + rowValue(board[5]) + rowValue(board[6]) + rowValue(board[7])

\* evaluateBoard testing the draws before the checkmate
evaluateBoardDrawFirst(c) ==
    IF c.in_draw \/ c.in_stalemate \/ c.in_threefold_repetition THEN 0
    ELSE IF c.in_checkmate THEN (IF c.turn = "w" THEN -999999 ELSE 999999)
    ELSE boardValue(c.board)

\* c: the Chess object as evaluateBoard sees it (View)
evaluateBoard(c) ==
    IF c.in_checkmate THEN (IF c.turn = "w" THEN -999999 ELSE 999999)
    ELSE IF c.in_draw \/ c.in_stalemate \/ c.in_threefold_repetition THEN 0
    ELSE boardValue(c.board)

\* eloToParams with the first band's upper bound inclusive
eloToParamsInclusive(elo) ==
    IF elo <= 900 THEN [depth |-> 1, randomness |-> 70]
    ELSE IF elo < 1100 THEN [depth |-> 2, randomness |-> 50]
    ELSE IF elo < 1400 THEN [depth |-> 2, randomness |-> 35]
    ELSE IF elo < 1700 THEN [depth |-> 3, randomness |-> 20]
    ELSE IF elo < 2000 THEN [depth |-> 4, randomness |-> 12]
    ELSE IF elo < 2300 THEN [depth |-> 5, randomness |-> 6]
    ELSE [depth |-> 6, randomness |-> 2]

\* randomness in hundredths
eloToParams(elo) ==
    IF elo < 900 THEN [depth |-> 1, randomness |-> 70]
    ELSE IF elo < 1100 THEN [depth |-> 2, randomness |-> 50]
    ELSE IF elo < 1400 THEN [depth |-> 2, randomness |-> 35]
    ELSE IF elo < 1700 THEN [depth |-> 3, randomness |-> 20]
    ELSE IF elo < 2000 THEN [depth |-> 4, randomness |-> 12]
    ELSE IF elo < 2300 THEN [depth |-> 5, randomness |-> 6]
    ELSE [depth |-> 6, randomness |-> 2]

\* san.includes('x')
includesX(san) == \E i \in 1..Len(san) : san[i] = "x"

\* the stable sort by (isCapB - isCapA): captures first, order otherwise kept
orderMoves(movesList) ==
    SelectSeq(movesList, LAMBDA m : includesX(m))
    \o SelectSeq(movesList, LAMBDA m : ~includesX(m))

RECURSIVE negamax(_, _, _, _, _)
RECURSIVE negamaxLoop(_, _, _, _, _, _, _, _)

\* negamaxLoop recursing with the window (-alpha, -beta): not swapped
negamaxLoopUnswapped(chess, ms, i, depth, alpha, beta, max, perspectiveColor) ==
    IF i > Len(ms) THEN [score |-> max, chess |-> chess, nodes |-> 0]
    ELSE LET Iteration(r) ==
                 LET score == -r.score
                     undone == undo(r.chess)
                     max2 == IF score > max THEN score ELSE max
                     alpha2 == IF max2 > alpha THEN max2 ELSE alpha
                 IN IF alpha2 >= beta
                    THEN [score |-> max2, chess |-> undone, nodes |-> r.nodes]
                    ELSE LET rest == negamaxLoop(undone, ms, i + 1, depth, alpha2, beta,
                                                 max2, perspectiveColor)
                         IN [rest EXCEPT !.nodes = @ + r.nodes]
         IN Iteration(negamax(move(chess, ms[i]), depth - 1, -alpha, -beta,
                              perspectiveColor))

\* negamaxLoop leaving the loop on a cutoff before chess.undo()
negamaxLoopBreakBeforeUndo(chess, ms, i, depth, alpha, beta, max, perspectiveColor) ==
    IF i > Len(ms) THEN [score |-> max, chess |-> chess, nodes |-> 0]
    ELSE LET Iteration(r) ==
                 LET score == -r.score
                     undone == undo(r.chess)
                     max2 == IF score > max THEN score ELSE max
                     alpha2 == IF max2 > alpha THEN max2 ELSE alpha
                 IN IF alpha2 >= beta
                    THEN [score |-> max2, chess |-> r.chess, nodes |-> r.nodes]
                    ELSE LET rest == negamaxLoop(undone, ms, i + 1, depth, alpha2, beta,
                                                 max2, perspectiveColor)
                         IN [rest EXCEPT !.nodes = @ + r.nodes]
         IN Iteration(negamax(move(chess, ms[i]), depth - 1, -beta, -alpha,
                              perspectiveColor))

\* the for loop of negamax from index i on; the result carries the Chess object
\* as the loop leaves it and the number of nodes visited
negamaxLoop(chess, ms, i, depth, alpha, beta, max, perspectiveColor) ==
    IF i > Len(ms) THEN [score |-> max, chess |-> chess, nodes |-> 0]
    ELSE LET Iteration(r) ==
                 LET score == -r.score
                     undone == undo(r.chess)
                     max2 == IF score > max THEN score ELSE max
                     alpha2 == IF max2 > alpha THEN max2 ELSE alpha
                 IN IF alpha2 >= beta
                    THEN [score |-> max2, chess |-> undone, nodes |-> r.nodes]
                    ELSE LET rest == negamaxLoop(undone, ms, i + 1, depth, alpha2, beta,
                                                 max2, perspectiveColor)
                         IN [rest EXCEPT !.nodes = @ + r.nodes]
         IN Iteration(negamax(move(chess, ms[i]), depth - 1, -beta, -alpha,
                              perspectiveColor))

negamax(chess, depth, alpha, beta, perspectiveColor) ==
    IF depth = 0 \/ game_over(chess)
    THEN LET Leaf(evalScore) ==
                 [score |-> IF perspectiveColor = "w" THEN evalScore ELSE -evalScore,
                  chess |-> chess, nodes |-> 1]
         IN Leaf(evaluateBoard(View(chess)))
    ELSE LET r == negamaxLoop(chess, orderMoves(moves(chess)), 1, depth, alpha, beta,
                              -Infinity, perspectiveColor)
         IN [r EXCEPT !.nodes = @ + 1]

RECURSIVE bestLoop(_, _, _, _, _, _, _)

\* bestLoop taking a move that scores the same as the best so far (>=)
bestLoopLastWins(chess, ordered, i, maxDepth, aiColor, bestMove, bestScore) ==
    IF i > Len(ordered)
    THEN [isNull |-> FALSE, move |-> bestMove, score |-> bestScore,
          chess |-> chess, nodes |-> 0]
    ELSE LET Iteration(r) ==
                 LET score == -r.score
                     undone == undo(r.chess)
                 IN IF score >= bestScore
                    THEN LET rest == bestLoop(undone, ordered, i + 1, maxDepth, aiColor,
                                              ordered[i], score)
                         IN [rest EXCEPT !.nodes = @ + r.nodes]
                    ELSE LET rest == bestLoop(undone, ordered, i + 1, maxDepth, aiColor,
                                              bestMove, bestScore)
                         IN [rest EXCEPT !.nodes = @ + r.nodes]
         IN Iteration(negamax(move(chess, ordered[i]), maxDepth - 1, -Infinity,
                              Infinity, switchColor(aiColor)))

\* the for loop of getBestMove from index i on
bestLoop(chess, ordered, i, maxDepth, aiColor, bestMove, bestScore) ==
    IF i > Len(ordered)
    THEN [isNull |-> FALSE, move |-> bestMove, score |-> bestScore,
          chess |-> chess, nodes |-> 0]
    ELSE LET Iteration(r) ==
                 LET score == -r.score
                     undone == undo(r.chess)
                 IN IF score > bestScore
                    THEN LET rest == bestLoop(undone, ordered, i + 1, maxDepth, aiColor,
                                              ordered[i], score)
                         IN [rest EXCEPT !.nodes = @ + r.nodes]
                    ELSE LET rest == bestLoop(undone, ordered, i + 1, maxDepth, aiColor,
                                              bestMove, bestScore)
                         IN [rest EXCEPT !.nodes = @ + r.nodes]
         IN Iteration(negamax(move(chess, ordered[i]), maxDepth - 1, -Infinity,
                              Infinity, switchColor(aiColor)))

\* getBestMove without the early return on an empty move list
getBestMoveNoEarlyReturn(chess, maxDepth, aiColor) ==
    bestLoop(chess, orderMoves(moves(chess)), 1, maxDepth, aiColor, Null, -Infinity)

\* isNull: the function returned null; move = Null: it returned {move: null}
getBestMove(chess, maxDepth, aiColor) ==
    LET Search(ms) ==
            IF Len(ms) = 0
            THEN [isNull |-> TRUE, move |-> Null, score |-> 0, chess |-> chess,
                  nodes |-> 0]
            ELSE bestLoop(chess, orderMoves(ms), 1, maxDepth, aiColor, Null, -Infinity)
    IN Search(moves(chess))

\* the shallow-evaluation loop of makeAIMove from index i on
RECURSIVE shallowLoop(_, _, _, _, _)
shallowLoop(chess, ms, i, perspective, scored) ==
    IF i > Len(ms) THEN [scored |-> scored, chess |-> chess]
    ELSE LET Iteration(moved) ==
                 LET sc == evaluateBoard(View(moved))
                           * (IF perspective = "w" THEN 1 ELSE -1)
                 IN shallowLoop(undo(moved), ms, i + 1, perspective,
                                Append(scored, [move |-> ms[i], score |-> sc]))
         IN Iteration(move(chess, ms[i]))

\* e put behind every element of the sorted list that does not score less
insertDesc(sorted, e) ==
    LET n == Cardinality({j \in 1..Len(sorted) : sorted[j].score >= e.score})
    IN SubSeq(sorted, 1, n) \o <<e>> \o SubSeq(sorted, n + 1, Len(sorted))

\* (the comparator reversed, a.score - b.score: ascending, stable)
RECURSIVE sortAsc(_, _)
sortAsc(scored, n) ==
    IF n = 0 THEN <<>>
    ELSE LET rest == sortAsc(scored, n - 1)
             lower == SelectSeq(rest, LAMBDA e : e.score <= scored[n].score)
             higher == SelectSeq(rest, LAMBDA e : e.score > scored[n].score)
         IN lower \o <<scored[n]>> \o higher

\* scored.sort((a, b) => b.score - a.score): descending, stable
RECURSIVE sortDesc(_, _)
sortDesc(scored, n) ==
    IF n = 0 THEN <<>> ELSE insertDesc(sortDesc(scored, n - 1), scored[n])

Min(a, b) == IF a < b THEN a ELSE b

\* Math.floor(Math.random() * n), Math.random() = u / 100
randomIndex(u, n) == (u * n) \div 100

\* makeAIMove on the Chess object chess, with the DOM's aiSide and aiStrength and
\* the two values u1, u2 that Math.random() yields (hundredths).  branch names
\* the path taken, move the move played (Null: none).
makeAIMove(chess, side, strength, u1, u2) ==
    IF game_over(chess) THEN [chess |-> chess, branch |-> "over", move |-> Null]
    ELSE
    LET params == eloToParams(strength)
        aiColor == IF side = "white" THEN "w" ELSE "b"
        perspective == aiColor
        Blunder(ms, sh) ==
            LET k == Min(4, Len(ms))
                scored == sortDesc(sh.scored, Len(sh.scored))
                pick == scored[randomIndex(u2, Min(k, Len(scored))) + 1].move
            IN [chess |-> move(sh.chess, pick), branch |-> "blunder", move |-> pick]
        Choose(ms, best) ==
            IF best.isNull \/ best.move = Null
            THEN LET m == ms[randomIndex(u1, Len(ms)) + 1]
                 IN [chess |-> move(best.chess, m), branch |-> "random", move |-> m]
            ELSE IF u1 < params.randomness
            THEN Blunder(ms, shallowLoop(best.chess, ms, 1, perspective, <<>>))
            ELSE [chess |-> move(best.chess, best.move), branch |-> "best",
                  move |-> best.move]
        Search(ms) ==
            IF Len(ms) = 0 THEN [chess |-> chess, branch |-> "nomoves", move |-> Null]
            ELSE Choose(ms, getBestMove(chess, params.depth, perspective))
    IN Search(moves(chess))

----------------------------------------------------------------------------
(* The search functions applied to the positions of a game *)

\* deepest search called
MaxDepth == 3

Colors == {"w", "b"}

\* the (alpha, beta) windows a negamax frame is entered with
Windows == {<<-Infinity, Infinity>>, <<-Infinity, 0>>, <<0, Infinity>>, <<-500, 500>>}

\* values of Math.random(), in hundredths
Randoms == {0, 25, 50, 75}

NoCall == [fn |-> "none"]

InitSearch ==
    /\ game = NewChess
    /\ playAI = FALSE
    /\ aiSide = "black"
    /\ aiStrength = 800
    /\ timers = <<>>
    /\ dragging = 0
    /\ last = [kind |-> "none"]
    /\ input = NoCall
    /\ output = NoCall

uiVars == <<playAI, aiSide, aiStrength, timers, dragging, last>>

\* a move arrives on the game (onDrop, or makeAIMove's game.move)
Play ==
    /\ input = NoCall
    /\ Len(game.hist) < MaxPly
    /\ \E ms \in {moves(game)} : \E i \in 1..Len(ms) : game' = move(game, ms[i])
    /\ input' = NoCall
    /\ output' = NoCall
    /\ UNCHANGED uiVars

CallNegamax ==
    /\ input = NoCall
    /\ \E d \in 0..MaxDepth, w \in Windows, p \in Colors :
        \E r \in {negamax(game, d, w[1], w[2], p)} :
           /\ input' = [fn |-> "negamax", chess |-> game, depth |-> d,
                        alpha |-> w[1], beta |-> w[2], color |-> p]
           /\ output' = [score |-> r.score, nodes |-> r.nodes]
           /\ game' = r.chess
           /\ UNCHANGED uiVars

CallGetBestMove ==
    /\ input = NoCall
    /\ \E d \in 1..MaxDepth, c \in Colors :
        \E r \in {getBestMove(game, d, c)} :
           /\ input' = [fn |-> "getBestMove", chess |-> game, depth |-> d, color |-> c]
           /\ output' = [isNull |-> r.isNull, move |-> r.move, score |-> r.score,
                         nodes |-> r.nodes]
           /\ game' = r.chess
           /\ UNCHANGED uiVars

CallShallow ==
    /\ input = NoCall
    /\ \E c \in Colors :
        \E r \in {shallowLoop(game, moves(game), 1, c, <<>>)} :
           /\ input' = [fn |-> "shallow", chess |-> game, color |-> c]
           /\ output' = [scored |-> r.scored]
           /\ game' = r.chess
           /\ UNCHANGED uiVars

\* (a call that plays a move needs room for it in the bounded history)
CallMakeAIMove ==
    /\ input = NoCall
    /\ (Len(game.hist) < MaxPly \/ game_over(game))
    /\ \E side \in {"white", "black"}, e \in {800, 1000}, u1 \in {0, 75}, u2 \in Randoms :
        \E r \in {makeAIMove(game, side, e, u1, u2)} :
           /\ input' = [fn |-> "makeAIMove", chess |-> game, side |-> side,
                        strength |-> e, u1 |-> u1, u2 |-> u2]
           /\ output' = [branch |-> r.branch, move |-> r.move]
           /\ game' = r.chess
           /\ UNCHANGED uiVars

\* the call returns to its caller
Return ==
    /\ input # NoCall
    /\ input' = NoCall
    /\ output' = NoCall
    /\ UNCHANGED <<game, playAI, aiSide, aiStrength, timers, dragging, last>>

NextSearch ==
    Play \/ CallNegamax \/ CallGetBestMove \/ CallShallow \/ CallMakeAIMove \/ Return

SpecSearch == InitSearch /\ [][NextSearch]_vars

----------------------------------------------------------------------------
(* Reference values the search is compared with *)

MaxOf(S) == CHOOSE x \in S : \A y \in S : y <= x

RECURSIVE SumTo(_, _)
SumTo(f, n) == IF n = 0 THEN 0 ELSE f[n] + SumTo(f, n - 1)

\* the depth-limited minimax value of a position for the side to move
RECURSIVE Minimax(_, _)
Minimax(chess, depth) ==
    IF depth = 0 \/ game_over(chess)
    THEN (IF chess.turn = "w" THEN evaluateBoard(View(chess))
          ELSE -evaluateBoard(View(chess)))
    ELSE LET ms == moves(chess)
         IN MaxOf({-Minimax(move(chess, ms[i]), depth - 1) : i \in 1..Len(ms)})

\* the score of negamax with the `alpha >= beta` break removed: every child is
\* searched
RECURSIVE fullWidth(_, _, _)
fullWidth(chess, depth, perspectiveColor) ==
    IF depth = 0 \/ game_over(chess)
    THEN (IF perspectiveColor = "w" THEN evaluateBoard(View(chess))
          ELSE -evaluateBoard(View(chess)))
    ELSE LET ms == moves(chess)
         IN MaxOf({-fullWidth(move(chess, ms[i]), depth - 1, perspectiveColor) :
                     i \in 1..Len(ms)} \cup {-Infinity})

\* the number of frames that search enters
RECURSIVE fullWidthNodes(_, _)
fullWidthNodes(chess, depth) ==
    IF depth = 0 \/ game_over(chess) THEN 1
    ELSE LET ms == moves(chess)
         IN 1 + SumTo([i \in 1..Len(ms) |->
                          fullWidthNodes(move(chess, ms[i]), depth - 1)], Len(ms))

FullWindow == input.alpha = -Infinity /\ input.beta = Infinity

----------------------------------------------------------------------------
(* Claims about the search (checked under SpecSearch) *)

\* C1: negamax(position, d, -inf, +inf, p), p the side to move, returns the
\* depth-d minimax value of the position for p.
C1_NegamaxIsMinimax ==
    (input.fn = "negamax" /\ FullWindow /\ input.color = input.chess.turn)
        => output.score = Minimax(input.chess, input.depth)

\* C2: called with the full window, negamax with alpha-beta cutoffs returns the
\* score of the same search with the cutoff removed.
C2_PruningKeepsScore ==
    (input.fn = "negamax" /\ FullWindow)
        => output.score = fullWidth(input.chess, input.depth, input.color)

\* a full-window search in which a cutoff pruned part of the tree
C2_Witness ==
    /\ input.fn = "negamax"
    /\ FullWindow
    /\ output.nodes < fullWidthNodes(input.chess, input.depth)
    /\ output.score = fullWidth(input.chess, input.depth, input.color)

\* C3: after negamax, getBestMove and makeAIMove's shallow loop return, the
\* position and its move history are what they were at the call.
C3_SearchRestoresGame ==
    input.fn \in {"negamax", "getBestMove", "shallow"} => game = input.chess

\* a search of a position with a history that left its loop on a cutoff
C3_Witness ==
    /\ input.fn = "negamax"
    /\ input.depth >= 2
    /\ Len(input.chess.hist) >= 1
    /\ output.nodes < fullWidthNodes(input.chess, input.depth)
    /\ game = input.chess

\* a precedes b in the capture-first enumeration of the legal moves ms
Precedes(ms, a, b) ==
    \/ includesX(ms[a]) /\ ~includesX(ms[b])
    \/ includesX(ms[a]) = includesX(ms[b]) /\ a < b

\* the score getBestMove gives the move san of the position it was called on
RootScore(san) ==
    -negamax(move(input.chess, san), input.depth - 1, -Infinity, Infinity,
             switchColor(input.color)).score

\* the scores of the moves ms[i], ms[i + 1], ...
RECURSIVE RootScores(_, _)
RootScores(ms, i) ==
    IF i > Len(ms) THEN <<>> ELSE <<RootScore(ms[i])>> \o RootScores(ms, i + 1)

\* C6: getBestMove returns the first move, in capture-first order, whose score
\* -negamax(...) is the greatest over the legal moves, and that score.
C6_FirstMaximalMove ==
    (input.fn = "getBestMove" /\ ~output.isNull) =>
        LET ms == moves(input.chess)
            sc == RootScores(ms, 1)
        IN \E i \in 1..Len(ms) :
              /\ ms[i] = output.move
              /\ sc[i] = output.score
              /\ \A j \in 1..Len(ms) : sc[j] <= sc[i]
              /\ \A j \in 1..Len(ms) : Precedes(ms, j, i) => sc[j] < sc[i]

\* a search of depth 2 or more whose best move is not the first one tried
C6_Witness ==
    /\ input.fn = "getBestMove"
    /\ ~output.isNull
    /\ input.depth >= 2
    /\ output.move # orderMoves(moves(input.chess))[1]
    /\ \E i \in 1..Len(moves(input.chess)) :
          /\ moves(input.chess)[i] # output.move
          /\ RootScore(moves(input.chess)[i]) = output.score

\* C8 as stated: with no legal move the selector returns none and leaves the
\* position alone; with a legal move it never returns none.
C8_NoneIffNoLegalMove ==
    /\ input.fn = "getBestMove" =>
          /\ output.isNull <=> moves(input.chess) = <<>>
          /\ output.isNull => (output.nodes = 0 /\ game = input.chess)
          /\ ~output.isNull => output.move # Null
    /\ input.fn = "makeAIMove" =>
          /\ output.move = Null <=> moves(input.chess) = <<>>
          /\ output.move = Null => game = input.chess

\* C8 amended: makeAIMove returns without playing exactly when the game is over,
\* which covers every position without a legal move.
C8_NoneIffGameOver ==
    /\ input.fn = "getBestMove" =>
          /\ output.isNull <=> moves(input.chess) = <<>>
          /\ output.isNull => (output.nodes = 0 /\ game = input.chess)
          /\ ~output.isNull => output.move # Null
    /\ input.fn = "makeAIMove" =>
          /\ output.move = Null <=> game_over(input.chess)
          /\ moves(input.chess) = <<>> => output.move = Null
          /\ output.move = Null => game = input.chess

\* getBestMove was called on a position without a legal move
C8_Witness ==
    /\ input.fn = "getBestMove"
    /\ moves(input.chess) = <<>>
    /\ output.isNull
    /\ game = input.chess

\* the shallow score makeAIMove gives move i of the position it was called on
ShallowScore(i) ==
    LET v == evaluateBoard(View(move(input.chess, moves(input.chess)[i])))
    IN IF input.side = "white" THEN v ELSE -v

\* the shallow scores of moves i, i + 1, ...
RECURSIVE ShallowScores(_)
ShallowScores(i) ==
    IF i > Len(moves(input.chess)) THEN <<>>
    ELSE <<ShallowScore(i)>> \o ShallowScores(i + 1)

\* C7: a run of makeAIMove that gets past its guards plays exactly one legal
\* move.  When the first draw is below the band's randomness, the move has the
\* r-th greatest shallow score, r = floor(second draw * min(4, count)) + 1, so
\* it is among the first min(4, count) moves by descending shallow score;
\* otherwise it is the move getBestMove returns.
C7_BlunderOrBest ==
    (input.fn = "makeAIMove" /\ ~game_over(input.chess)) =>
        LET ms == moves(input.chess)
            n == Len(ms)
            k == IF n < 4 THEN n ELSE 4
            r == (input.u2 * k) \div 100 + 1
            aiColor == IF input.side = "white" THEN "w" ELSE "b"
            depth == IF input.strength < 900 THEN 1 ELSE 2
            blunders == input.u1 < (IF input.strength < 900 THEN 70 ELSE 50)
            sc == ShallowScores(1)
        IN /\ \E i \in 1..n : ms[i] = output.move
           /\ game = move(input.chess, output.move)
           /\ Len(game.hist) = Len(input.chess.hist) + 1
           /\ blunders =>
                 \E i \in 1..n :
                    /\ ms[i] = output.move
                    /\ r <= k
                    /\ Cardinality({j \in 1..n : sc[j] > sc[i]}) < r
                    /\ Cardinality({j \in 1..n : sc[j] >= sc[i]}) >= r
           /\ ~blunders => output.move = getBestMove(input.chess, depth, aiColor).move

\* a blunder among five or more legal moves that is not the best move
C7_Witness ==
    /\ input.fn = "makeAIMove"
    /\ output.branch = "blunder"
    /\ Len(moves(input.chess)) >= 5
    /\ output.move # getBestMove(input.chess, 1, IF input.side = "white" THEN "w" ELSE "b").move
    /\ input.strength < 900
    /\ game = move(input.chess, output.move)

----------------------------------------------------------------------------
(* The page: user events and timer callbacks (lines 23-107, 217-278) *)

\* longest game played on the page
MaxGame == 4

\* values of the strength slider
Strengths == {800, 1000}

NoAI == [kind |-> "none"]

turnName(chess) == IF chess.turn = "w" THEN "white" ELSE "black"

\* The checkbox and the selects start as the page's markup sets them; every
\* setting below is also reached from any other by the change events alone.
Init ==
    /\ game = NewChess
    /\ playAI = FALSE
    /\ aiSide \in {"white", "black"}
    /\ aiStrength \in Strengths
    /\ timers = <<>>
    /\ dragging = 0
    /\ last = NoAI
    /\ input = NoCall
    /\ output = NoCall

\* onDragStart(source, piece): the drag starts unless the handler returns false
OnDragStart ==
    /\ dragging = 0
    /\ \E source \in Files :
        /\ game.board[source] # "."
        /\ ~game_over(game)
        /\ ~(playAI /\ ((game.turn = "w" /\ aiSide = "white")
                        \/ (game.turn = "b" /\ aiSide = "black")))
        /\ ~((game.turn = "w" /\ pieceColor(game.board[source]) = "b")
             \/ (game.turn = "b" /\ pieceColor(game.board[source]) = "w"))
        /\ dragging' = source
    /\ last' = NoAI
    /\ UNCHANGED <<game, playAI, aiSide, aiStrength, timers, input, output>>

\* onDrop(source, target): game.move({from, to}) is null for an illegal move
OnDrop ==
    /\ dragging # 0
    /\ \E target \in Files :
        IF ~LegalStep(game.board, game.turn, dragging, target)
        THEN UNCHANGED <<game, timers>>
        ELSE LET moved == Apply(game, dragging, target)
                 schedules == /\ playAI
                              /\ ~game_over(moved)
                              /\ turnName(moved) = aiSide
             IN /\ Len(game.hist) < MaxGame
                /\ schedules => Len(timers) < MaxTimers
                /\ game' = moved
                /\ timers' = IF schedules THEN Append(timers, "drop") ELSE timers
    /\ dragging' = 0
    /\ last' = NoAI
    /\ UNCHANGED <<playAI, aiSide, aiStrength, input, output>>

OnUndo ==
    /\ dragging = 0
    /\ game' = IF playAI THEN undo(undo(game)) ELSE undo(game)
    /\ last' = NoAI
    /\ UNCHANGED <<playAI, aiSide, aiStrength, timers, dragging, input, output>>

OnReset ==
    /\ dragging = 0
    /\ game' = reset(game)
    /\ last' = NoAI
    /\ UNCHANGED <<playAI, aiSide, aiStrength, timers, dragging, input, output>>

\* the change listener of the checkbox: checking it schedules a callback
TogglePlayAI ==
    /\ dragging = 0
    /\ ~playAI => Len(timers) < MaxTimers
    /\ playAI' = ~playAI
    /\ timers' = IF ~playAI THEN Append(timers, "toggle") ELSE timers
    /\ last' = NoAI
    /\ UNCHANGED <<game, aiSide, aiStrength, dragging, input, output>>

\* the AI side select has no listener
ChangeAISide ==
    /\ dragging = 0
    /\ aiSide' = IF aiSide = "white" THEN "black" ELSE "white"
    /\ last' = NoAI
    /\ UNCHANGED <<game, playAI, aiStrength, timers, dragging, input, output>>

\* the slider's input listener only rewrites the label
ChangeStrength ==
    /\ dragging = 0
    /\ \E e \in Strengths \ {aiStrength} : aiStrength' = e
    /\ last' = NoAI
    /\ UNCHANGED <<game, playAI, aiSide, timers, dragging, input, output>>

\* makeAIMove() runs on the page's state, Math.random() yielding u1 then u2;
\* last keeps the move it played and the side that was to move
RunMakeAIMove(u1, u2) ==
    \E r \in {makeAIMove(game, aiSide, aiStrength, u1, u2)} :
       /\ (Len(game.hist) < MaxGame \/ game_over(game))
       /\ game' = r.chess
       /\ last' = [kind |-> "ai", move |-> r.move, turn |-> game.turn]

\* the callback onDrop scheduled: () => makeAIMove()
FireDropTimer ==
    /\ timers # <<>>
    /\ Head(timers) = "drop"
    /\ \E u1 \in {0, 75}, u2 \in {0, 75} : RunMakeAIMove(u1, u2)
    /\ timers' = Tail(timers)
    /\ UNCHANGED <<playAI, aiSide, aiStrength, dragging, input, output>>

\* the callback the checkbox scheduled: makeAIMove() if it is the AI side's turn
FireToggleTimer ==
    /\ timers # <<>>
    /\ Head(timers) = "toggle"
    /\ IF turnName(game) = aiSide /\ ~game_over(game)
       THEN \E u1 \in {0, 75}, u2 \in {0, 75} : RunMakeAIMove(u1, u2)
       ELSE game' = game /\ last' = NoAI
    /\ timers' = Tail(timers)
    /\ UNCHANGED <<playAI, aiSide, aiStrength, dragging, input, output>>

Next ==
    \/ OnDragStart
    \/ OnDrop
    \/ OnUndo
    \/ OnReset
    \/ TogglePlayAI
    \/ ChangeAISide
    \/ ChangeStrength
    \/ FireDropTimer
    \/ FireToggleTimer

Spec == Init /\ [][Next]_vars

----------------------------------------------------------------------------
(* Claims about the page (checked under Spec) *)

\* C9: whatever the order of user events and timer callbacks, makeAIMove plays
\* a move only when Play-vs-AI is checked and the side to move is the AI side.
C9_AIMovesOnlyItsSide ==
    (last.kind = "ai" /\ last.move # Null) =>
        /\ playAI
        /\ last.turn = (IF aiSide = "white" THEN "w" ELSE "b")

\* C10: whenever Play-vs-AI is checked, the game is not over and the AI side is
\* to move, a callback that will run makeAIMove is pending.
C10_AIMovePending ==
    (playAI /\ ~game_over(game) /\ turnName(game) = aiSide) => timers # <<>>

----------------------------------------------------------------------------
(* evaluateBoard applied to positions of the full board *)

Ranks8 == 0..7

BackRank == <<"r", "n", "b", "q", "k", "b", "n", "r">>
WhiteBackRank == <<"R", "N", "B", "Q", "K", "B", "N", "R">>

\* chess.board() of the starting position: row 0 is rank 8
StartPosition ==
    [r \in Ranks8 |-> [f \in Ranks8 |->
        CASE r = 0 -> BackRank[f + 1]
          [] r = 1 -> "p"
          [] r = 6 -> "P"
          [] r = 7 -> WhiteBackRank[f + 1]
          [] OTHER -> "."]]

KingsOnly ==
    [r \in Ranks8 |-> [f \in Ranks8 |->
        IF StartPosition[r][f] \in {"K", "k"} THEN StartPosition[r][f] ELSE "."]]

\* the starting position with the piece on (r, f) captured
Captured(r, f) == [StartPosition EXCEPT ![r][f] = "."]

\* the starting position with the pawn of (r, f) now standing on (r2, f2) as
\* piece (itself, or the piece it was promoted to)
Relocated(r, f, r2, f2, piece) ==
    [StartPosition EXCEPT ![r][f] = ".", ![r2][f2] = piece]

EvalBoards ==
    {StartPosition, KingsOnly}
    \cup {Captured(r, f) : r \in {0, 7}, f \in Ranks8 \ {4}}
    \cup {Captured(r, f) : r \in {1, 6}, f \in Ranks8}
    \cup {Relocated(1, f, r2, f2, piece) :
            f \in Ranks8, r2 \in 2..5, f2 \in Ranks8, piece \in BlackPieces \ {"k"}}
    \cup {Relocated(6, f, r2, f2, piece) :
            f \in Ranks8, r2 \in 2..5, f2 \in Ranks8, piece \in WhitePieces \ {"K"}}

\* the answers chess.js can give together: in_draw() is true of a stalemate and of
\* a repetition, a checkmate is neither, and a position without a legal move
\* is not repeated
EvalFlags ==
    {fl \in [in_checkmate : BOOLEAN, in_draw : BOOLEAN, in_stalemate : BOOLEAN,
             in_threefold_repetition : BOOLEAN] :
        /\ fl.in_stalemate => fl.in_draw
        /\ fl.in_threefold_repetition => fl.in_draw
        /\ fl.in_checkmate => (~fl.in_stalemate /\ ~fl.in_threefold_repetition)
        /\ ~(fl.in_stalemate /\ fl.in_threefold_repetition)}

EvalInputs ==
    {[in_checkmate |-> fl.in_checkmate, in_draw |-> fl.in_draw,
      in_stalemate |-> fl.in_stalemate,
      in_threefold_repetition |-> fl.in_threefold_repetition,
      turn |-> t, board |-> b] : fl \in EvalFlags, t \in {"w", "b"}, b \in EvalBoards}

InitEval ==
    /\ game = NewChess
    /\ playAI = FALSE
    /\ aiSide = "black"
    /\ aiStrength = 800
    /\ timers = <<>>
    /\ dragging = 0
    /\ last = [kind |-> "none"]
    /\ input \in {[fn |-> "evaluateBoard", chess |-> c] : c \in EvalInputs}
    /\ output = NoCall

CallEvaluateBoard ==
    /\ input.fn = "evaluateBoard"
    /\ output = NoCall
    /\ output' = [value |-> evaluateBoard(input.chess)]
    /\ UNCHANGED <<game, playAI, aiSide, aiStrength, timers, dragging, last, input>>

NextEval == CallEvaluateBoard

SpecEval == InitEval /\ [][NextEval]_vars

\* how many squares of board hold piece
Count(board, piece) ==
    Cardinality({sq \in Ranks8 \X Ranks8 : board[sq[1]][sq[2]] = piece})

\* White's material less Black's
Material(board) ==
    100 * (Count(board, "P") - Count(board, "p"))
    + 320 * (Count(board, "N") - Count(board, "n"))
    + 330 * (Count(board, "B") - Count(board, "b"))
    + 500 * (Count(board, "R") - Count(board, "r"))
    + 900 * (Count(board, "Q") - Count(board, "q"))
    + 20000 * (Count(board, "K") - Count(board, "k"))

Mirrored(board) ==
    /\ Count(board, "P") = Count(board, "p")
    /\ Count(board, "N") = Count(board, "n")
    /\ Count(board, "B") = Count(board, "b")
    /\ Count(board, "R") = Count(board, "r")
    /\ Count(board, "Q") = Count(board, "q")
    /\ Count(board, "K") = Count(board, "k")

\* C4: evaluateBoard returns -999999 / +999999 for a checkmate with White /
\* Black to move, whatever the draw tests say; else 0 for a draw, a stalemate
\* or a repetition; else White's material less Black's (p 100, n 320, b 330,
\* r 500, q 900, k 20000), which is 0 when the material is mirrored.
C4_EvaluateBoardValue ==
    (input.fn = "evaluateBoard" /\ output # NoCall) =>
        LET c == input.chess
        IN /\ c.in_checkmate =>
                output.value = (IF c.turn = "w" THEN -999999 ELSE 999999)
           /\ (~c.in_checkmate
               /\ (c.in_draw \/ c.in_stalemate \/ c.in_threefold_repetition)) =>
                output.value = 0
           /\ (~c.in_checkmate /\ ~c.in_draw /\ ~c.in_stalemate
               /\ ~c.in_threefold_repetition) =>
                /\ output.value = Material(c.board)
                /\ Mirrored(c.board) => output.value = 0

\* a checkmate with Black to move that in_draw() also reports as a draw
C4_Witness ==
    /\ input.fn = "evaluateBoard"
    /\ input.chess.in_checkmate
    /\ input.chess.in_draw
    /\ input.chess.turn = "b"
    /\ output # NoCall
    /\ output.value = 999999

----------------------------------------------------------------------------
(* eloToParams applied to the integers of -MaxElo..MaxElo *)

MaxElo == 2600

InitElo ==
    /\ game = NewChess
    /\ playAI = FALSE
    /\ aiSide = "black"
    /\ aiStrength = 800
    /\ timers = <<>>
    /\ dragging = 0
    /\ last = [kind |-> "none"]
    /\ input \in {[fn |-> "eloToParams", elo |-> e] : e \in -MaxElo..MaxElo}
    /\ output = NoCall

CallEloToParams ==
    /\ input.fn = "eloToParams"
    /\ output = NoCall
    /\ output' = eloToParams(input.elo)
    /\ UNCHANGED <<game, playAI, aiSide, aiStrength, timers, dragging, last, input>>

NextElo == CallEloToParams

SpecElo == InitElo /\ [][NextElo]_vars

\* the band table of the claim, randomness in hundredths
Band(elo) ==
    CASE elo < 900 -> <<1, 70>>
      [] elo \in 900..1099 -> <<2, 50>>
      [] elo \in 1100..1399 -> <<2, 35>>
      [] elo \in 1400..1699 -> <<3, 20>>
      [] elo \in 1700..1999 -> <<4, 12>>
      [] elo \in 2000..2299 -> <<5, 6>>
      [] elo >= 2300 -> <<6, 2>>

\* C5: eloToParams returns the (depth, randomness) of the band holding elo,
\* lower bounds inclusive; depth is at least 1, and from elo to elo + 1 depth
\* does not fall and randomness does not rise.
C5_EloBands ==
    (input.fn = "eloToParams" /\ output # NoCall) =>
        /\ <<output.depth, output.randomness>> = Band(input.elo)
        /\ output.depth >= 1
        /\ output.depth <= eloToParams(input.elo + 1).depth
        /\ output.randomness >= eloToParams(input.elo + 1).randomness

\* the lower bound of the second band
C5_Witness ==
    /\ input.fn = "eloToParams"
    /\ input.elo = 900
    /\ output # NoCall
    /\ output.depth = 2
    /\ output.randomness = 50

====
